---------------------------- MODULE Spec2Model ----------------------------
(***************************************************************************)
(* Model of yara/agents/decision_agent.py: DecisionAgent.execute and the   *)
(* two helpers it calls, _calculate_option_score and _generate_reasoning.  *)
(*                                                                         *)
(* Numbers.  Python floats are modelled by exact rationals.  novelty and   *)
(* criteria weights are kept in tenths (novelty 0.8 is 8, weight 0.6 is    *)
(* 6); research_impact, price and quality are integers.  A raw score is an *)
(* integer numerator over ScoreDen(max_impact, total_weight), which is the *)
(* same for every option of one call, so raw scores of one call compare by *)
(* their numerators.  A rescaled score raw / max_score is the pair         *)
(* <<raw numerator, max_score numerator>>.  All numeric inputs are >= 0.   *)
(***************************************************************************)
EXTENDS Integers, Sequences, FiniteSets, TLC

VARIABLES
    built,    \* the task record as the caller built it
    task,     \* the task record the caller holds (its option objects are shared with execute)
    calls,    \* how many times execute ran on this task
    result,   \* what the last call of execute returned (or the exception it raised)
    prev,     \* what the call before the last returned, on the same task
    frame     \* the locals of the last call of execute

vars == <<built, task, calls, result, prev, frame>>

\* Bounds of the model
MaxOptions == 4
MaxCalls == 2

-----------------------------------------------------------------------------
\* Python dict access

Has(d, k) == k \in DOMAIN d

Get(d, k, default) == IF Has(d, k) THEN d[k] ELSE default

\* o[k] = v, adding the key when it is absent
SetItem(o, k, v) == [f \in DOMAIN o \cup {k} |-> IF f = k THEN v ELSE o[f]]

Min(a, b) == IF a <= b THEN a ELSE b

RECURSIVE SumOver(_, _)
SumOver(f, S) ==
    IF S = {} THEN 0
    ELSE LET k == CHOOSE x \in S : TRUE IN f[k] + SumOver(f, S \ {k})

\* None, as returned by dict.get for an absent key
None == "None"

-----------------------------------------------------------------------------
\* The inputs: option records, preferences, criteria

OptionA ==
    [name |-> "Option A", novelty |-> 8, research_impact |-> 85,
     implementation_complexity |-> "medium", features |-> {"core", "innovative"},
     price |-> 100]

OptionB ==
    [name |-> "Option B", novelty |-> 4, research_impact |-> 60,
     implementation_complexity |-> "low", features |-> {"core"}, price |-> 50]

OptionC ==
    [name |-> "Option C", novelty |-> 2, research_impact |-> 30,
     implementation_complexity |-> "high", features |-> {"experimental"},
     price |-> 200]

\* an option whose numeric fields are all 0
OptionZ ==
    [name |-> "Option Z", novelty |-> 0, research_impact |-> 0,
     implementation_complexity |-> "low", features |-> {"core"}, price |-> 0]

\* an option without novelty, research_impact and implementation_complexity
OptionQ ==
    [name |-> "Option Q", features |-> {"core"}, price |-> 40, quality |-> 5,
     availability |-> "now"]

\* an option that scores like Option B under every task
OptionD ==
    [name |-> "Option D", novelty |-> 4, research_impact |-> 60,
     implementation_complexity |-> "low", features |-> {"core"}, price |-> 50]

OptionPool == {OptionA, OptionB, OptionC, OptionZ, OptionQ, OptionD}

\* batches: sequences of distinct option objects
Batches(n) ==
    UNION {{s \in [1..k -> OptionPool] : \A i, j \in 1..k : i # j => s[i] # s[j]} : k \in 0..n}

EmptyDict == [x \in {} |-> 0]

PrefsA ==
    [implementation_complexity |-> "medium", required_features |-> {"core"},
     max_price |-> 150]

PrefsPool ==
    {EmptyDict, PrefsA,
     [max_price |-> 60],
     [min_quality |-> 3, preferred_availability |-> "now"],
     [implementation_complexity |-> "medium"]}

CriteriaA == [novelty |-> 4, research_impact |-> 6]

\* given criteria whose weights sum to 0
CriteriaZero == [novelty |-> 0, price |-> 0]

\* criteria that name a numeric field and a field whose value is a str
CriteriaPrice == [price |-> 10, implementation_complexity |-> 10]

CriteriaPool == {EmptyDict, CriteriaA, CriteriaZero, CriteriaPrice}

-----------------------------------------------------------------------------
\* The shapes of task["data"]

ListData(opts) == [kind |-> "list", items |-> opts]

\* {"options": opts}; {} when opts is empty
DictData(opts) == [kind |-> "dict", has_content |-> FALSE, options |-> opts]

\* {"content": c}
ContentData(c) == [kind |-> "dict", has_content |-> TRUE, content |-> c, options |-> <<>>]

\* a str: the JSON text of value when wellformed, any other text otherwise
\* (value is then not used)
StrData(wellformed, value) == [kind |-> "str", wellformed |-> wellformed, value |-> value]

\* what json.loads gives for the text of a number
ScalarData == [kind |-> "scalar"]

DataShapes(opts) ==
    {ListData(opts), DictData(opts), ContentData(ListData(opts)),
     ContentData(DictData(opts)), ContentData(StrData(TRUE, DictData(opts))),
     ContentData(StrData(FALSE, ScalarData)),
     StrData(TRUE, ListData(opts)), StrData(TRUE, DictData(opts)),
     StrData(TRUE, ScalarData), StrData(FALSE, ScalarData)}

DecisionTask(data, prefs, crit) ==
    [type |-> "decision", data |-> data, user_preferences |-> prefs, criteria |-> crit]

\* every preference and criteria with the batches short of the longest, two of
\* each with the longest; every data shape with the batches of at most one option
Tasks ==
    {DecisionTask(ListData(b), p, c) :
        b \in Batches(MaxOptions - 1), p \in PrefsPool, c \in CriteriaPool}
    \cup {DecisionTask(ListData(b), p, c) :
        b \in Batches(MaxOptions), p \in {EmptyDict, PrefsA}, c \in {CriteriaA, CriteriaZero}}
    \cup {DecisionTask(d, p, CriteriaA) : d \in UNION {DataShapes(b) : b \in Batches(1)}, p \in {EmptyDict, PrefsA}}
    \cup {[type |-> "decision"], [type |-> "decision", user_preferences |-> PrefsA],
          [type |-> "summarization", data |-> ListData(<<OptionA>>)],
          [data |-> ListData(<<OptionA>>)]}


-----------------------------------------------------------------------------
\* execute, lines 94-124: extracting the options from the task

\* Line 225, `import json` in the body of execute (after the return of line
\* 170), makes json a local name of the whole function: evaluating json.loads
\* at line 102 or 114 raises UnboundLocalError, whatever the text is.
JsonLoadsRaises(data) ==
    \/ data.kind = "str"
    \/ /\ data.kind = "dict"
       /\ data.has_content
       /\ data.content.kind = "str"

\* data.get("content", data)
ContentOf(data) == IF data.has_content THEN data.content ELSE data

\* lines 106-117, for data that is not a str and has no str content
ExtractOptions(t) ==
    LET data == Get(t, "data", DictData(<<>>))
    IN  IF data.kind = "list" THEN data.items
        ELSE IF data.kind = "dict" /\ ~JsonLoadsRaises(data)
             THEN (IF ContentOf(data).kind = "dict"
                   THEN ContentOf(data).options
                   ELSE ContentOf(data).items)
             ELSE <<>>

\* The caller's data after execute wrote to the option objects: options is the
\* caller's own list, found as ExtractOptions finds it.
StoreOptions(data, opts) ==
    IF data.kind = "list" THEN [data EXCEPT !.items = opts]
    ELSE IF ~data.has_content THEN [data EXCEPT !.options = opts]
    ELSE IF data.content.kind = "dict" THEN [data EXCEPT !.content.options = opts]
    ELSE [data EXCEPT !.content.items = opts]

-----------------------------------------------------------------------------
\* execute, lines 126-141: research impact scores and criteria weights

MaxOf(S) == CHOOSE x \in S : \A y \in S : x >= y

\* a mutation: the nominal top of the research_impact scale is the divisor
MaxImpactNominal(options) == 100

\* max((opt.get("research_impact", 0) for opt in options), default=100);
\* options is not empty here
MaxImpact(options) ==
    MaxOf({Get(options[i], "research_impact", 0) : i \in 1..Len(options)})

\* opt["research_impact"] / max_impact raises ZeroDivisionError
NormalizeRaises(options) ==
    /\ MaxImpact(options) = 0
    /\ \E i \in 1..Len(options) : Has(options[i], "research_impact")

\* a mutation: the raw field is moved into the derived one
AttachImpactScoreMoved(opt, max_impact) ==
    IF Has(opt, "research_impact")
    THEN [f \in (DOMAIN opt \ {"research_impact"}) \cup {"research_impact_score"} |->
            IF f = "research_impact_score"
            THEN <<opt["research_impact"], max_impact>> ELSE opt[f]]
    ELSE opt

\* opt["research_impact_score"] = opt["research_impact"] / max_impact
AttachImpactScore(opt, max_impact) ==
    IF Has(opt, "research_impact")
    THEN SetItem(opt, "research_impact_score", <<opt["research_impact"], max_impact>>)
    ELSE opt

NormalizeImpact(options) ==
    [i \in 1..Len(options) |-> AttachImpactScore(options[i], MaxImpact(options))]

\* the keys whose value is an int or a float
NumericNames == {"novelty", "research_impact", "price", "quality", "research_impact_score"}

NumericFields(opt) == DOMAIN opt \cap NumericNames

\* weight 1.0, in tenths
DefaultWeight == 10

\* a mutation: the default weights replace criteria whose weights sum to 0
CriteriaWhenSumZero(task_criteria, options) ==
    IF SumOver(task_criteria, DOMAIN task_criteria) # 0 THEN task_criteria
    ELSE [f \in NumericFields(options[1]) |-> DefaultWeight]

\* criteria = task_criteria if task_criteria else {field: 1.0 for field in numeric_fields}
Criteria(task_criteria, options) ==
    IF DOMAIN task_criteria # {} THEN task_criteria
    ELSE [f \in NumericFields(options[1]) |-> DefaultWeight]

\* 1, in tenths: the divisor used when the weights sum to 0
UnitWeight == 10

TotalWeight(criteria) ==
    IF SumOver(criteria, DOMAIN criteria) = 0 THEN UnitWeight
    ELSE SumOver(criteria, DOMAIN criteria)

\* normalized_criteria[k] is weights[k] / total
NormalizedCriteria(criteria) == [weights |-> criteria, total |-> TotalWeight(criteria)]

-----------------------------------------------------------------------------
\* _calculate_option_score, lines 12-56

\* a mutation: the price check is lost
PassesConstraintsNoPrice(option, user_prefs) ==
    /\ Has(user_prefs, "required_features") =>
          user_prefs["required_features"] \subseteq Get(option, "features", {})
    /\ Has(user_prefs, "min_quality") =>
          Get(option, "quality", 0) >= user_prefs["min_quality"]

\* lines 17-28: None is returned unless all of these hold.  An absent price is
\* float("inf"), which exceeds every max_price.
PassesConstraints(option, user_prefs) ==
    /\ Has(user_prefs, "required_features") =>
          user_prefs["required_features"] \subseteq Get(option, "features", {})
    /\ Has(user_prefs, "max_price") =>
          /\ Has(option, "price")
          /\ option["price"] <= user_prefs["max_price"]
    /\ Has(user_prefs, "min_quality") =>
          Get(option, "quality", 0) >= user_prefs["min_quality"]

\* the divisor of the research impact scores of a call, 1 when none was attached
ImpactDen(max_impact) == IF max_impact = 0 THEN 1 ELSE max_impact

\* Raw scores before the complexity bonus are numerators over
\* 20 * ImpactDen(max_impact) * total_weight; after it, over ten times that.
ScoreDen(max_impact, total) == 200 * ImpactDen(max_impact) * total

\* option.get("research_impact_score", 0) as a numerator over ImpactDen(max_impact);
\* exact, since every score present was attached with this call's max_impact
ImpactScoreNum(option, max_impact) ==
    IF Has(option, "research_impact_score")
    THEN (option["research_impact_score"][1] * ImpactDen(max_impact))
            \div option["research_impact_score"][2]
    ELSE 0

\* float(option[criterion]) as a numerator over 10 * ImpactDen(max_impact)
ValueNum(option, criterion, max_impact) ==
    IF criterion = "novelty" THEN option[criterion] * ImpactDen(max_impact)
    ELSE IF criterion = "research_impact_score" THEN 10 * ImpactScoreNum(option, max_impact)
    ELSE 10 * option[criterion] * ImpactDen(max_impact)

\* line 34
AvailabilityMatches(option, user_prefs) ==
    /\ Has(user_prefs, "preferred_availability")
    /\ user_prefs["preferred_availability"] = Get(option, "availability", None)

\* a mutation: the preference is looked up under a key the preferences never have
ComplexityMatchesWrongKey(option, user_prefs) ==
    Get(option, "implementation_complexity", None) = Get(user_prefs, "complexity", None)

\* lines 53 and 71: option.get(...) == user_prefs.get(...), None on both sides
\* when the key is absent from both
ComplexityMatches(option, user_prefs) ==
    Get(option, "implementation_complexity", None)
        = Get(user_prefs, "implementation_complexity", None)

\* lines 31-43: 1.0 for availability, novelty * 0.5, research_impact_score * 0.7,
\* over 20 * ImpactDen(max_impact) * total
BaseNum(option, user_prefs, max_impact, total) ==
    (IF AvailabilityMatches(option, user_prefs) THEN 20 * ImpactDen(max_impact) * total ELSE 0)
    + Get(option, "novelty", 0) * ImpactDen(max_impact) * total
    + 14 * ImpactScoreNum(option, max_impact) * total

\* lines 46-50: value * weight for every criterion that is a numeric field of the option
RECURSIVE CriteriaNum(_, _, _, _)
CriteriaNum(option, normalized_criteria, names, max_impact) ==
    IF names = {} THEN 0
    ELSE LET c == CHOOSE x \in names : TRUE
         IN  (IF c \in NumericFields(option)
              THEN 2 * ValueNum(option, c, max_impact) * normalized_criteria.weights[c]
              ELSE 0)
             + CriteriaNum(option, normalized_criteria, names \ {c}, max_impact)

\* lines 52-54: score *= 1.1 on a complexity match; the numerator is over
\* ScoreDen(max_impact, total) either way
BonusNum(option, user_prefs) == IF ComplexityMatches(option, user_prefs) THEN 11 ELSE 10

\* a mutation: the bonus is applied before the criteria are added
RawScoreBonusBeforeCriteria(option, normalized_criteria, user_prefs, max_impact) ==
    BaseNum(option, user_prefs, max_impact, normalized_criteria.total)
        * BonusNum(option, user_prefs)
    + 10 * CriteriaNum(option, normalized_criteria, DOMAIN normalized_criteria.weights, max_impact)

\* the score _calculate_option_score returns when it does not return None
RawScoreNum(option, normalized_criteria, user_prefs, max_impact) ==
    (BaseNum(option, user_prefs, max_impact, normalized_criteria.total)
     + CriteriaNum(option, normalized_criteria, DOMAIN normalized_criteria.weights, max_impact))
    * BonusNum(option, user_prefs)

\* lines 143-148: the (option, score) pairs of the options that were not filtered out
ScoredOptions(options, normalized_criteria, user_prefs, max_impact) ==
    LET kept == {i \in 1..Len(options) : PassesConstraints(options[i], user_prefs)}
        F[i \in 0..Len(options)] ==
            IF i = 0 THEN <<>>
            ELSE IF i \in kept
                 THEN Append(F[i - 1],
                        [option |-> options[i],
                         score |-> RawScoreNum(options[i], normalized_criteria, user_prefs, max_impact)])
                 ELSE F[i - 1]
    IN  F[Len(options)]

-----------------------------------------------------------------------------
\* execute, lines 157-168: ranking and rescaling

\* a mutation: ascending order
RankedAscending(scored_options) ==
    LET F[i \in 0..Len(scored_options)] ==
            IF i = 0 THEN <<>>
            ELSE LET x == scored_options[i]
                     k == Cardinality({j \in 1..(i - 1) : F[i - 1][j].score <= x.score})
                 IN  SubSeq(F[i - 1], 1, k) \o <<x>> \o SubSeq(F[i - 1], k + 1, i - 1)
    IN  F[Len(scored_options)]

\* a mutation: an element goes before the elements of equal score
RankedTiesReversed(scored_options) ==
    LET F[i \in 0..Len(scored_options)] ==
            IF i = 0 THEN <<>>
            ELSE LET x == scored_options[i]
                     k == Cardinality({j \in 1..(i - 1) : F[i - 1][j].score > x.score})
                 IN  SubSeq(F[i - 1], 1, k) \o <<x>> \o SubSeq(F[i - 1], k + 1, i - 1)
    IN  F[Len(scored_options)]

\* sorted(scored_options, key=lambda x: x[1], reverse=True): descending by score,
\* elements of equal score in their original order
RankedOptions(scored_options) ==
    LET F[i \in 0..Len(scored_options)] ==
            IF i = 0 THEN <<>>
            ELSE LET x == scored_options[i]
                     k == Cardinality({j \in 1..(i - 1) : F[i - 1][j].score >= x.score})
                 IN  SubSeq(F[i - 1], 1, k) \o <<x>> \o SubSeq(F[i - 1], k + 1, i - 1)
    IN  F[Len(scored_options)]

\* max(s[1] for s in scored_options)
MaxScore(scored_options) ==
    MaxOf({scored_options[i].score : i \in 1..Len(scored_options)})

\* the length of the slice ranked_options[:3]
TopN == 3

\* a mutation: the slice keeps the last entries
TopRankedFromEnd(ranked_options) ==
    SubSeq(ranked_options, Len(ranked_options) - Min(TopN, Len(ranked_options)) + 1,
           Len(ranked_options))

\* ranked_options[:3]
TopRanked(ranked_options) == SubSeq(ranked_options, 1, Min(TopN, Len(ranked_options)))

-----------------------------------------------------------------------------
\* _generate_reasoning, lines 58-83: the clauses, to be joined by " | "

Clause(text) == [text |-> text, features |-> {}]

\* a mutation: the raw research_impact is compared with 0.7
ImpactScoreHighOnRaw(option) ==
    /\ Has(option, "research_impact")
    /\ 10 * option["research_impact"] > 7

\* option.get("research_impact_score", 0) > 0.7
ImpactScoreHigh(option) ==
    /\ Has(option, "research_impact_score")
    /\ 10 * option["research_impact_score"][1] > 7 * option["research_impact_score"][2]

\* set(option["features"]).intersection(set(user_prefs.get("required_features", [])))
MatchedFeatures(option, user_prefs) ==
    Get(option, "features", {}) \cap Get(user_prefs, "required_features", {})

GenerateReasoning(option, user_prefs) ==
    LET reasons ==
            (IF Get(option, "novelty", 0) > 7 THEN <<Clause("High novelty factor")>> ELSE <<>>)
            \o (IF ImpactScoreHigh(option)
                THEN <<Clause("Strong research impact potential")>> ELSE <<>>)
            \o (IF ComplexityMatches(option, user_prefs)
                THEN <<Clause("Matches preferred implementation complexity")>> ELSE <<>>)
            \o (IF MatchedFeatures(option, user_prefs) # {}
                THEN <<[text |-> "Contains required features: ",
                        features |-> MatchedFeatures(option, user_prefs)]>>
                ELSE <<>>)
    IN  IF reasons = <<>> THEN <<Clause("Based on overall score analysis")>> ELSE reasons

\* lines 161-168: float(score / max_score) is the pair <<score, max_score>>
Recommendations(ranked_options, max_score, user_prefs) ==
    [i \in 1..Len(TopRanked(ranked_options)) |->
        [option |-> TopRanked(ranked_options)[i].option,
         score |-> <<TopRanked(ranked_options)[i].score, max_score>>,
         reasoning |-> GenerateReasoning(TopRanked(ranked_options)[i].option, user_prefs)]]

-----------------------------------------------------------------------------
\* execute, lines 85-173

NotApplicable ==
    [type |-> "recommendation", recommendation |-> "N/A (not applicable for this task)"]

NoOptionsMessage == "No options available for decision making"

NoSuitableMessage == "No suitable options found after applying criteria"

EmptyResult(message) ==
    [type |-> "recommendation", message |-> message, recommendations |-> <<>>]

Success(recommendations) ==
    [type |-> "recommendation", recommendations |-> recommendations]

\* the call ended in an exception instead of returning
Raised(exception) == [raised |-> exception]

\* the locals of a call that stopped at `stage`
Frame(stage, options, max_impact, normalized_criteria, scored_options, ranked_options) ==
    [stage |-> stage, options |-> options, max_impact |-> max_impact,
     normalized_criteria |-> normalized_criteria, scored_options |-> scored_options,
     ranked_options |-> ranked_options]

NoCriteria == NormalizedCriteria(EmptyDict)

\* what one call does: the value returned (or the exception raised), the
\* caller's data after the call, and the locals
Run(t) ==
    LET user_prefs == Get(t, "user_preferences", EmptyDict)
        task_criteria == Get(t, "criteria", EmptyDict)
        data == Get(t, "data", DictData(<<>>))
        extracted == ExtractOptions(t)
        max_impact == MaxImpact(extracted)
        options == NormalizeImpact(extracted)
        normalized_criteria == NormalizedCriteria(Criteria(task_criteria, options))
        scored_options == ScoredOptions(options, normalized_criteria, user_prefs, max_impact)
        ranked_options == RankedOptions(scored_options)
        max_score == MaxScore(scored_options)
    IN  IF Get(t, "type", None) # "decision"
        THEN [result |-> NotApplicable, data |-> data,
              frame |-> Frame("not_decision", <<>>, 0, NoCriteria, <<>>, <<>>)]
        ELSE IF JsonLoadsRaises(data)
        THEN [result |-> Raised("UnboundLocalError"), data |-> data,
              frame |-> Frame("json_raised", <<>>, 0, NoCriteria, <<>>, <<>>)]
        ELSE IF extracted = <<>>
        THEN [result |-> EmptyResult(NoOptionsMessage), data |-> data,
              frame |-> Frame("no_options", <<>>, 0, NoCriteria, <<>>, <<>>)]
        ELSE IF NormalizeRaises(extracted)
        THEN [result |-> Raised("ZeroDivisionError"), data |-> data,
              frame |-> Frame("normalize_raised", extracted, max_impact, NoCriteria, <<>>, <<>>)]
        ELSE IF scored_options = <<>>
        THEN [result |-> EmptyResult(NoSuitableMessage), data |-> StoreOptions(data, options),
              frame |-> Frame("no_suitable", options, max_impact, normalized_criteria, <<>>, <<>>)]
        ELSE IF max_score = 0
        THEN [result |-> Raised("ZeroDivisionError"), data |-> StoreOptions(data, options),
              frame |-> Frame("rescale_raised", options, max_impact, normalized_criteria,
                              scored_options, ranked_options)]
        ELSE [result |-> Success(Recommendations(ranked_options, max_score, user_prefs)),
              data |-> StoreOptions(data, options),
              frame |-> Frame("returned", options, max_impact, normalized_criteria,
                              scored_options, ranked_options)]

-----------------------------------------------------------------------------
\* The state machine: a caller builds a task, calls execute on it (again on the
\* same objects, or on a task rebuilt from scratch), and drops it.

NoTask == [idle |-> TRUE]

NoResult == [pending |-> TRUE]

NoFrame == Frame("idle", <<>>, 0, NoCriteria, <<>>, <<>>)

\* DecisionAgent.__init__: the agent keeps a logger and a scaler, which execute
\* neither reads nor writes
Init ==
    /\ built = NoTask
    /\ task = NoTask
    /\ calls = 0
    /\ result = NoResult
    /\ prev = NoResult
    /\ frame = NoFrame

Submit ==
    /\ task = NoTask
    /\ \E t \in Tasks :
          /\ built' = t
          /\ task' = t
    /\ UNCHANGED <<calls, result, prev, frame>>

Execute ==
    /\ task # NoTask
    /\ calls < MaxCalls
    /\ LET call == Run(task)
       IN  /\ task' = (IF Has(task, "data") THEN [task EXCEPT !.data = call.data] ELSE task)
           /\ result' = call.result
           /\ frame' = call.frame
    /\ prev' = result
    /\ calls' = calls + 1
    /\ UNCHANGED built

\* the caller builds the same task again, with new option objects
Rebuild ==
    /\ task # NoTask
    /\ calls >= 1
    /\ calls < MaxCalls
    /\ task # built
    /\ task' = built
    /\ UNCHANGED <<built, calls, result, prev, frame>>

Discard ==
    /\ task # NoTask
    /\ calls >= 1
    /\ built' = NoTask
    /\ task' = NoTask
    /\ calls' = 0
    /\ result' = NoResult
    /\ prev' = NoResult
    /\ frame' = NoFrame

Next == Submit \/ Execute \/ Rebuild \/ Discard

Spec == Init /\ [][Next]_vars

-----------------------------------------------------------------------------
\* Vocabulary of the properties

\* the preferences and criteria of the task the last call ran on
Prefs == Get(built, "user_preferences", EmptyDict)

TaskCriteria == Get(built, "criteria", EmptyDict)

\* the option batch of the task as the caller built it
InputOptions == ExtractOptions(built)

Called == built # NoTask /\ calls >= 1

IsDecision == Get(built, "type", None) = "decision"

Returned == Has(result, "recommendations")

Recs == result.recommendations

\* the hard constraints, as the specification words them
SatisfiesHard(o, p) ==
    /\ Has(p, "required_features") =>
          \A f \in p.required_features : Has(o, "features") /\ f \in o.features
    /\ Has(p, "max_price") => (Has(o, "price") /\ ~(o.price > p.max_price))
    /\ Has(p, "min_quality") => ~((IF Has(o, "quality") THEN o.quality ELSE 0) < p.min_quality)

Survivors == {i \in 1..Len(InputOptions) : SatisfiesHard(InputOptions[i], Prefs)}

\* the options a task's data carries, serialized or not; none when the text
\* does not parse
RECURSIVE CarriedOptions(_)
CarriedOptions(d) ==
    IF d.kind = "list" THEN d.items
    ELSE IF d.kind = "dict"
         THEN (IF d.has_content THEN CarriedOptions(d.content) ELSE d.options)
    ELSE IF d.kind = "str" /\ d.wellformed THEN CarriedOptions(d.value)
    ELSE <<>>

GivenOptions == CarriedOptions(Get(built, "data", DictData(<<>>)))

GivenSurvivors == {i \in 1..Len(GivenOptions) : SatisfiesHard(GivenOptions[i], Prefs)}

ImpactOf(o) == IF Has(o, "research_impact") THEN o.research_impact ELSE 0

NoveltyOf(o) == IF Has(o, "novelty") THEN o.novelty ELSE 0

RecOptions == {Recs[i].option : i \in 1..Len(Recs)}

HasClause(reasoning, text) == \E i \in 1..Len(reasoning) : reasoning[i].text = text

-----------------------------------------------------------------------------
\* C1: every option of a returned recommendation list satisfies all hard
\* constraints present in user_preferences: required_features is a subset of
\* its features, its price (absent = +infinity) is <= max_price, its quality
\* (absent = 0) is >= min_quality.
C1_RecommendedSatisfyConstraints ==
    (Called /\ Returned) =>
        \A i \in 1..Len(Recs) : SatisfiesHard(Recs[i].option, Prefs)

\* a list was returned, of options within the price limit, while another
\* option of the batch was over it
C1_Witness ==
    /\ Called /\ Returned /\ Recs # <<>>
    /\ Has(Prefs, "max_price")
    /\ \E i \in 1..Len(InputOptions) :
          Has(InputOptions[i], "price") /\ InputOptions[i].price > Prefs.max_price
    /\ \A i \in 1..Len(Recs) : Recs[i].option.price <= Prefs.max_price

\* C2: whenever at least one option survives filtering, execute returns a
\* non-empty recommendation list whose first entry has rescaled score exactly
\* 1.0, also when all surviving raw scores are 0.
C2_TopScoreIsOne ==
    (Called /\ IsDecision /\ Survivors # {}) =>
        /\ Returned
        /\ Recs # <<>>
        /\ Recs[1].score[2] # 0
        /\ Recs[1].score[1] = Recs[1].score[2]

\* C3: in every returned recommendation list the rescaled scores are
\* non-increasing by index and every rescaled score lies in [0, 1].
C3_ScoresDescendInUnitInterval ==
    (Called /\ Returned) =>
        /\ \A i \in 1..Len(Recs) :
              /\ Recs[i].score[2] > 0
              /\ 0 <= Recs[i].score[1]
              /\ Recs[i].score[1] <= Recs[i].score[2]
        /\ \A i \in 1..(Len(Recs) - 1) :
              /\ Recs[i].score[2] = Recs[i + 1].score[2]
              /\ Recs[i].score[1] >= Recs[i + 1].score[1]

\* three recommendations of three different rescaled scores, given in an input
\* order that is not the ranking
C3_Witness ==
    /\ Called /\ Returned /\ Len(Recs) = 3
    /\ Recs[1].score[1] > Recs[2].score[1]
    /\ Recs[2].score[1] > Recs[3].score[1]
    /\ Recs[3].score[1] > 0
    /\ Recs[1].option.name # InputOptions[1].name

\* C4: the recommendation list never has more than min(3, number of options
\* that survive filtering) entries, and its entries are the highest-raw-score
\* survivors: no survivor left out has a strictly higher raw score than one
\* included.
C4_TopThreeOfSurvivors ==
    (Called /\ Returned) =>
        /\ Len(Recs) <= 3
        /\ Len(Recs) <= Cardinality(Survivors)
        /\ \A i \in 1..Len(Recs) :
              \E j \in 1..Len(frame.scored_options) :
                  /\ frame.scored_options[j].option = Recs[i].option
                  /\ frame.scored_options[j].score = Recs[i].score[1]
        /\ \A j \in 1..Len(frame.scored_options) :
              frame.scored_options[j].option \notin RecOptions =>
                  \A i \in 1..Len(Recs) :
                      ~(frame.scored_options[j].score > Recs[i].score[1])

\* four options survive, three are recommended, and the one left out scores
\* strictly less than the third although it came first in the input
C4_Witness ==
    /\ Called /\ Returned /\ Len(Recs) = 3
    /\ Cardinality(Survivors) = 4
    /\ frame.scored_options[1].option \notin RecOptions
    /\ frame.scored_options[1].score < Recs[3].score[1]

\* C5: every option of the input batch that has a research_impact field gets
\* research_impact_score = research_impact / (maximum research_impact over the
\* whole input batch), computed before filtering: an option that a hard
\* constraint excludes still determines the divisor of the surviving options.
\* (The quotient is defined when that maximum is not 0.)
C5_ImpactScoreOverWholeBatch ==
    (Called /\ IsDecision /\ InputOptions # <<>>
        /\ \E i \in 1..Len(InputOptions) : ImpactOf(InputOptions[i]) # 0) =>
        /\ Len(frame.options) = Len(InputOptions)
        /\ \A i \in 1..Len(InputOptions) :
              Has(InputOptions[i], "research_impact") =>
                  /\ Has(frame.options[i], "research_impact_score")
                  /\ frame.options[i].research_impact_score[1] = InputOptions[i].research_impact
                  /\ \A j \in 1..Len(InputOptions) :
                        frame.options[i].research_impact_score[2] >= ImpactOf(InputOptions[j])
                  /\ \E j \in 1..Len(InputOptions) :
                        frame.options[i].research_impact_score[2] = ImpactOf(InputOptions[j])
        /\ Returned =>
              \A i \in 1..Len(Recs) : Recs[i].option \in {frame.options[j] : j \in 1..Len(frame.options)}

\* the option with the largest research_impact is excluded by a hard
\* constraint, and a recommended option carries a score divided by it
C5_Witness ==
    /\ Called /\ Returned /\ Recs # <<>>
    /\ \E x \in 1..Len(InputOptions) :
          /\ x \notin Survivors
          /\ \A i \in Survivors : ImpactOf(InputOptions[i]) < ImpactOf(InputOptions[x])
          /\ \E r \in 1..Len(Recs) :
                /\ Has(Recs[r].option, "research_impact_score")
                /\ Recs[r].option.research_impact_score[2] = ImpactOf(InputOptions[x])
                /\ Recs[r].option.research_impact_score[1] > 0

\* C6: calling execute twice in sequence with identical task input yields
\* identical output: same envelope, same recommended options in the same
\* order, same rescaled scores and reasoning.
C6_SecondCallSameOutput ==
    (Called /\ calls >= 2) => result = prev

\* the second call ran on the option objects the first call had written to, and
\* returned recommendations
C6_Witness ==
    /\ Called /\ calls >= 2
    /\ task # built
    /\ Returned /\ Len(Recs) >= 2
    /\ result = prev

\* C7: for every task, execute terminates by returning a well-formed response
\* object with type "recommendation" and never ends in an exception, also when
\* the research_impact values are all 0 or the raw scores are all 0.
C7_AlwaysReturnsResponse ==
    Called => (Has(result, "type") /\ result.type = "recommendation")

\* C8: for a decision task, no options extracted gives the message "No options
\* available for decision making" and an empty list; options of which none
\* satisfies the hard constraints give "No suitable options found after
\* applying criteria" and an empty list; otherwise the result has no message
\* and a non-empty list.
C8_EnvelopeSelection ==
    (Called /\ IsDecision) =>
        /\ GivenOptions = <<>> =>
              /\ Has(result, "message") /\ result.message = NoOptionsMessage
              /\ Returned /\ Recs = <<>>
        /\ (GivenOptions # <<>> /\ GivenSurvivors = {}) =>
              /\ Has(result, "message") /\ result.message = NoSuitableMessage
              /\ Returned /\ Recs = <<>>
        /\ (GivenOptions # <<>> /\ GivenSurvivors # {}) =>
              /\ ~Has(result, "message")
              /\ Returned /\ Recs # <<>>

\* the scored option j has strictly the highest novelty and strictly the
\* highest research_impact among the options that passed the hard constraints,
\* and its implementation_complexity is the preferred one
StandsOut(j) ==
    /\ Has(Prefs, "implementation_complexity")
    /\ Has(frame.scored_options[j].option, "implementation_complexity")
    /\ frame.scored_options[j].option.implementation_complexity = Prefs.implementation_complexity
    /\ \A k \in 1..Len(frame.scored_options) :
          k # j =>
              /\ NoveltyOf(frame.scored_options[j].option) > NoveltyOf(frame.scored_options[k].option)
              /\ ImpactOf(frame.scored_options[j].option) > ImpactOf(frame.scored_options[k].option)

\* first in the list, with a rescaled score above 0.7
RankedFirst(j) ==
    /\ Recs[1].option = frame.scored_options[j].option
    /\ 10 * Recs[1].score[1] > 7 * Recs[1].score[2]

\* the task of TestDecisionAgent.setUp
ScenarioA == DecisionTask(ListData(<<OptionA, OptionB, OptionC>>), PrefsA, CriteriaA)

\* C9, as claimed: when several options are ranked and one of them has both
\* the highest novelty and the highest research_impact among the options that
\* satisfy the hard constraints, and matches the preferred
\* implementation_complexity, it is the first recommendation, with a rescaled
\* score above 0.7.
C9_StandOutOptionFirst ==
    (Called /\ Returned /\ Len(frame.scored_options) >= 2) =>
        \A j \in 1..Len(frame.scored_options) : StandsOut(j) => RankedFirst(j)

\* C9, amended: the same, for tasks whose criteria are given and weigh only
\* novelty and research_impact and whose preferences name no
\* preferred_availability; and in Scenario A, Option C is excluded, Option A is
\* first with score 1.0, Option B second with a strictly lower score, and the
\* reasoning of Option A has "High novelty factor" and "Matches preferred
\* implementation complexity".
C9_StandOutOptionFirstOnNoveltyImpactCriteria ==
    /\ (Called /\ Returned /\ Len(frame.scored_options) >= 2
            /\ DOMAIN TaskCriteria # {}
            /\ DOMAIN TaskCriteria \subseteq {"novelty", "research_impact"}
            /\ ~Has(Prefs, "preferred_availability")) =>
          \A j \in 1..Len(frame.scored_options) : StandsOut(j) => RankedFirst(j)
    /\ (Called /\ built = ScenarioA) =>
          /\ Returned /\ Len(Recs) = 2
          /\ Recs[1].option.name = "Option A"
          /\ Recs[1].score[1] = Recs[1].score[2]
          /\ Recs[2].option.name = "Option B"
          /\ Recs[2].score[1] < Recs[2].score[2]
          /\ HasClause(Recs[1].reasoning, "High novelty factor")
          /\ HasClause(Recs[1].reasoning, "Matches preferred implementation complexity")

\* execute returned from Scenario A
C9_Witness ==
    /\ Called /\ built = ScenarioA
    /\ Returned /\ Len(Recs) = 2
    /\ StandsOut(1) /\ RankedFirst(1)

\* the raw score of the scored option j is made of the availability match,
\* novelty x 0.5, research_impact_score x 0.7 and the complexity bonus alone
BaseTermsOnly(j) ==
    frame.scored_options[j].score =
        BaseNum(frame.scored_options[j].option, Prefs, frame.max_impact,
                frame.normalized_criteria.total)
        * BonusNum(frame.scored_options[j].option, Prefs)

\* C10, as claimed: whenever the criteria weights sum to 0, also when no
\* criteria are given at all, the weighted-criteria terms contribute nothing to
\* any raw score, and no other numeric field (price) influences the order.
C10_ZeroWeightsContributeNothing ==
    (Called /\ frame.scored_options # <<>>
        /\ SumOver(TaskCriteria, DOMAIN TaskCriteria) = 0) =>
        \A j \in 1..Len(frame.scored_options) : BaseTermsOnly(j)

\* C10, amended: whenever criteria are given and their weights sum to 0, the
\* weighted-criteria terms contribute nothing to any raw score.
C10_GivenZeroWeightsContributeNothing ==
    (Called /\ frame.scored_options # <<>>
        /\ DOMAIN TaskCriteria # {}
        /\ SumOver(TaskCriteria, DOMAIN TaskCriteria) = 0) =>
        \A j \in 1..Len(frame.scored_options) : BaseTermsOnly(j)

\* criteria of weight 0 name price, and a cheaper option is recommended before
\* a dearer one and after another dearer one
C10_Witness ==
    /\ Called /\ Returned /\ Len(Recs) = 3
    /\ Has(TaskCriteria, "price")
    /\ SumOver(TaskCriteria, DOMAIN TaskCriteria) = 0
    /\ Recs[1].option.price > Recs[2].option.price
    /\ Recs[2].option.price < Recs[3].option.price
    /\ Recs[2].score[1] > Recs[3].score[1]

\* C11: execute operates on its own copy of the option records: after any call
\* the option records the caller passed in are unchanged (no
\* research_impact_score was added to or overwritten in them), so a later call
\* that reuses them sees them as the caller built them.
C11_CallerOptionsUnchanged ==
    Called => task = built

\* the value of the numeric field c of option o, in units of 1 / (10 * d)
FieldValue(o, c, d) ==
    IF c = "novelty" THEN o.novelty * d
    ELSE IF c = "research_impact_score"
         THEN (10 * o.research_impact_score[1] * d) \div o.research_impact_score[2]
    ELSE 10 * o[c] * d

\* the sum over the criteria in effect that name a numeric field of o of
\* value x weight / total, in units of 1 / (20 * d * total)
RECURSIVE WeightedSum(_, _, _, _)
WeightedSum(o, weights, names, d) ==
    IF names = {} THEN 0
    ELSE LET c == CHOOSE x \in names : TRUE
         IN  (IF c \in DOMAIN o /\ c \in {"novelty", "research_impact", "price", "quality",
                                         "research_impact_score"}
              THEN 2 * FieldValue(o, c, d) * weights[c]
              ELSE 0)
             + WeightedSum(o, weights, names \ {c}, d)

\* (a + 0.5 x novelty + 0.7 x research_impact_score + weighted criteria) x m, in
\* units of 1 / (200 * d * total): a is 1 on an availability match, m is 1.1
\* when the implementation_complexity of the option equals that of the
\* preferences (an absent one being None) and 1 otherwise
ClaimedRawScore(o, p, weights, total, d) ==
    ( (IF Has(p, "preferred_availability") /\ Has(o, "availability")
          /\ o.availability = p.preferred_availability
       THEN 20 * d * total ELSE 0)
      + (IF Has(o, "novelty") THEN o.novelty * d * total ELSE 0)
      + (IF Has(o, "research_impact_score")
         THEN (14 * o.research_impact_score[1] * total * d) \div o.research_impact_score[2]
         ELSE 0)
      + WeightedSum(o, weights, DOMAIN weights, d) )
    * (IF (IF Has(o, "implementation_complexity") THEN o.implementation_complexity ELSE None)
          = (IF Has(p, "implementation_complexity") THEN p.implementation_complexity ELSE None)
       THEN 11 ELSE 10)

\* C12: for every option that passes the hard constraints the raw score equals
\* (a + 0.5 x novelty + 0.7 x research_impact_score + sum over the criteria
\* whose name is a numeric field of the option of value x normalized weight)
\* x m; missing novelty and research_impact_score count as 0, non-numeric
\* criterion values are skipped, the multiplier is applied once and last, and
\* novelty / research_impact named in criteria are counted in addition to the
\* fixed base terms.
C12_RawScoreFormula ==
    (Called /\ frame.scored_options # <<>>) =>
        /\ Len(frame.scored_options) = Cardinality(Survivors)
        /\ \A j \in 1..Len(frame.scored_options) :
              frame.scored_options[j].score =
                  ClaimedRawScore(frame.scored_options[j].option, Prefs,
                                  frame.normalized_criteria.weights,
                                  frame.normalized_criteria.total,
                                  IF frame.max_impact = 0 THEN 1 ELSE frame.max_impact)

\* an option that matches the preferred complexity was scored under criteria
\* that name novelty and research_impact again
C12_Witness ==
    /\ Called /\ Returned
    /\ \E j \in 1..Len(frame.scored_options) :
          /\ Has(Prefs, "implementation_complexity")
          /\ Has(frame.scored_options[j].option, "implementation_complexity")
          /\ frame.scored_options[j].option.implementation_complexity
                = Prefs.implementation_complexity
          /\ frame.scored_options[j].option.novelty > 0
          /\ frame.scored_options[j].option.research_impact > 0
          /\ {"novelty", "research_impact"} \subseteq DOMAIN TaskCriteria
          /\ TaskCriteria.novelty > 0 /\ TaskCriteria.research_impact > 0

\* an option was scored under criteria that name a field of it holding a str
C12_WitnessSkipped ==
    /\ Called /\ Returned
    /\ \E j \in 1..Len(frame.scored_options) :
          /\ Has(TaskCriteria, "implementation_complexity")
          /\ Has(frame.scored_options[j].option, "implementation_complexity")
          /\ frame.scored_options[j].score > 0

\* the place of a scored option in the option sequence execute was given
InputIndex(o) == CHOOSE k \in 1..Len(frame.options) : frame.options[k] = o

\* C13: ranking is a stable descending sort on raw score: of two surviving
\* options with equal raw scores, the one earlier in the input sequence is
\* earlier in the recommendation list, and is the one retained when the cut at
\* 3 entries separates them.
C13_TiesKeepInputOrder ==
    (Called /\ Returned) =>
        /\ \A i, j \in 1..Len(Recs) :
              i < j =>
                  /\ Recs[i].score[1] >= Recs[j].score[1]
                  /\ Recs[i].score[1] = Recs[j].score[1] =>
                        InputIndex(Recs[i].option) < InputIndex(Recs[j].option)
        /\ \A s \in 1..Len(frame.scored_options) :
              frame.scored_options[s].option \notin RecOptions =>
                  \A i \in 1..Len(Recs) :
                      frame.scored_options[s].score = Recs[i].score[1] =>
                          InputIndex(Recs[i].option) < InputIndex(frame.scored_options[s].option)

\* the first two recommendations have equal raw scores, and the third has the
\* raw score of a survivor that the cut at 3 left out
C13_Witness ==
    /\ Called /\ Returned /\ Len(Recs) = 3
    /\ Recs[1].score[1] = Recs[2].score[1]
    /\ \E s \in 1..Len(frame.scored_options) :
          /\ frame.scored_options[s].option \notin RecOptions
          /\ frame.scored_options[s].score = Recs[3].score[1]

\* the place of a clause in the fixed order of the reasoning
ClauseRank(text) ==
    CASE text = "High novelty factor" -> 1
      [] text = "Strong research impact potential" -> 2
      [] text = "Matches preferred implementation complexity" -> 3
      [] text = "Contains required features: " -> 4
      [] text = "Based on overall score analysis" -> 5
      [] OTHER -> 0

NoveltyRule(o) == NoveltyOf(o) > 7

\* research_impact_score > 0.7, the score being research_impact over the
\* maximum of the batch
ImpactRule(o) ==
    /\ Has(o, "research_impact")
    /\ 10 * o.research_impact > 7 * frame.max_impact

\* the equality of the two implementation_complexity values, an absent value
\* on both sides included
ComplexityRule(o) ==
    Get(o, "implementation_complexity", None) = Get(Prefs, "implementation_complexity", None)

FeaturesRule(o) ==
    Get(o, "features", {}) \cap Get(Prefs, "required_features", {}) # {}

\* C14: the reasoning of every recommendation is non-empty and consists of
\* exactly the clauses whose rule holds, in the fixed order novelty > 0.7,
\* research_impact_score > 0.7, complexity match, non-empty intersection of the
\* option's features with required_features; the fallback clause is present
\* if and only if none of the four rules holds, and then it is the only clause.
C14_ReasoningClauses ==
    (Called /\ Returned) =>
        \A i \in 1..Len(Recs) :
            LET o == Recs[i].option
                r == Recs[i].reasoning
                none == ~(NoveltyRule(o) \/ ImpactRule(o) \/ ComplexityRule(o) \/ FeaturesRule(o))
            IN  /\ Len(r) >= 1
                /\ \A a \in 1..Len(r) : ClauseRank(r[a].text) # 0
                /\ \A a, b \in 1..Len(r) : a < b => ClauseRank(r[a].text) < ClauseRank(r[b].text)
                /\ HasClause(r, "High novelty factor") <=> NoveltyRule(o)
                /\ HasClause(r, "Strong research impact potential") <=> ImpactRule(o)
                /\ HasClause(r, "Matches preferred implementation complexity") <=> ComplexityRule(o)
                /\ HasClause(r, "Contains required features: ") <=> FeaturesRule(o)
                /\ \A a \in 1..Len(r) :
                      r[a].features =
                          IF r[a].text = "Contains required features: "
                          THEN Get(o, "features", {}) \cap Get(Prefs, "required_features", {})
                          ELSE {}
                /\ HasClause(r, "Based on overall score analysis") <=> none
                /\ none => Len(r) = 1

\* one recommendation carries all four clauses and another of the same list
\* carries a single clause
C14_Witness ==
    /\ Called /\ Returned
    /\ \E i, j \in 1..Len(Recs) :
          /\ Len(Recs[i].reasoning) = 4
          /\ Len(Recs[j].reasoning) = 1

\* a recommendation whose only clause is the fallback, for an option that has
\* an implementation_complexity other than the preferred one
C14_WitnessFallback ==
    /\ Called /\ Returned
    /\ Has(Prefs, "implementation_complexity")
    /\ \E i \in 1..Len(Recs) :
          /\ Recs[i].reasoning = <<Clause("Based on overall score analysis")>>
          /\ Has(Recs[i].option, "implementation_complexity")

\* the preferences name an implementation_complexity and the option's equals it
NamedComplexityMatch(o) ==
    /\ Has(Prefs, "implementation_complexity")
    /\ Has(o, "implementation_complexity")
    /\ o.implementation_complexity = Prefs.implementation_complexity

\* the additive terms of a scored option, before the multiplier, in units of
\* 1 / (20 * d * total)
AdditiveTerms(o) ==
    ClaimedRawScore(o, Prefs, frame.normalized_criteria.weights,
                    frame.normalized_criteria.total,
                    IF frame.max_impact = 0 THEN 1 ELSE frame.max_impact)
        \div (IF ComplexityRule(o) THEN 11 ELSE 10)

\* C15: the 1.1 complexity bonus is applied to an option's raw score, and the
\* clause "Matches preferred implementation complexity" is in its reasoning,
\* only when user_preferences names an implementation_complexity and the
\* option's implementation_complexity equals it; when the preferences name
\* none, no option receives the bonus or the clause.
C15_BonusOnlyOnNamedPreference ==
    Called =>
        /\ \A j \in 1..Len(frame.scored_options) :
              ~NamedComplexityMatch(frame.scored_options[j].option) =>
                  frame.scored_options[j].score = 10 * AdditiveTerms(frame.scored_options[j].option)
        /\ Returned =>
              \A i \in 1..Len(Recs) :
                  HasClause(Recs[i].reasoning, "Matches preferred implementation complexity") =>
                      NamedComplexityMatch(Recs[i].option)

=============================================================================
